---- MODULE Spec2Model ----
(***************************************************************************)
(* Model of the saf-stig-generator repair loop and Example Store.          *)
(*                                                                         *)
(* QualityAssuranceAgent exists in two variants:                           *)
(*   "qa"      agents/saf_stig_generator/qa.py      (exported by package)  *)
(*   "qa_old"  agents/saf_stig_generator/qa_old.py  (superseded variant,   *)
(*             modelled by its control flow as written)                    *)
(* One run of _run_async_impl is one behaviour; the variant, the session   *)
(* state found at entry and every adapter outcome are chosen freely.       *)
(*                                                                         *)
(* The Example Store is agents/saf_stig_generator/services/memory/tool.py: *)
(* its two parsers (SpecParse), one ingest of an arbitrary directory       *)
(* (SpecIngest), and any sequence of ingests, queries, baseline revisions  *)
(* and Coding Agent calls over the two collections (SpecStore).            *)
(***************************************************************************)
EXTENDS Integers, Sequences, FiniteSets, TLC

VARIABLES
    variant,                \* which source variant runs
    pc,                     \* position of the coroutine
    baseline_path,          \* session state "baseline_path" is set
    iteration,              \* loop counter of _run_async_impl
    test_results,           \* session state "test_results" / local test_results
    tested,                 \* qa_old: the local test_results has been assigned
    baseline_code,          \* content of the files under baseline_path
    current_baseline_code,  \* session state "current_baseline_code"
    remediated_code,        \* session state "remediated_code" / corrected_code
    remediation_prompt,     \* session state "remediation_prompt" / prompt
    fidx,                   \* qa_old: index of the failure being remediated
    events,                 \* events yielded / result returned to the caller
    outcome,                \* how the run ended
    calls,                  \* trace of the adapter invocations, in order
    tree,                   \* the .rb files of the baseline, as checked out
    rev,                    \* the revision of the baseline that is checked out
    examples_collection,    \* collection "validated_examples" (PersistentClient)
    legacy_collection,      \* collection "saf_inspec_controls" (HttpClient)
    result,                 \* what the last Example Store operation returned
    file_content,           \* text handed to parse_inspec_controls_from_file
    found_controls,         \* what parse_inspec_controls_from_file returned
    tasks,                  \* the Example Store calls running on the event loop
    orchestrator,           \* the run of OrchestratorAgent._run_async_impl
    inspec,                 \* the call of run_inspec_tests
    env                     \* common/config.py: _ENV_LOADED and the calls made

qaVars == <<variant, pc, baseline_path, iteration, test_results, tested,
            baseline_code, current_baseline_code, remediated_code,
            remediation_prompt, fidx, events, outcome, calls>>

storeVars == <<tree, rev, examples_collection, legacy_collection, result,
               file_content, found_controls>>

restVars == <<orchestrator, inspec, env>>

vars == <<variant, pc, baseline_path, iteration, test_results, tested,
          baseline_code, current_baseline_code, remediated_code,
          remediation_prompt, fidx, events, outcome, calls,
          tree, rev, examples_collection, legacy_collection, result,
          file_content, found_controls, tasks, orchestrator, inspec, env>>

-----------------------------------------------------------------------------
(* Bounds of the model *)

MaxFailures == 4            \* longest failures list of one TestResult
MaxCode == 1                \* code texts are 0..MaxCode

(* Program constants *)

max_iterations == 3
FailureLimit == 3           \* failures[:3]

-----------------------------------------------------------------------------
(* Data *)

Codes == 0..MaxCode
NoCode == -1
NoIteration == -1           \* the loop variable before the loop binds it

\* The failures lists a TestResult can carry: 0..MaxFailures failures, each
\* named by its position in the report.
FailureLists == {[i \in 1..n |-> i] : n \in 0..MaxFailures}

Min(a, b) == IF a < b THEN a ELSE b

\* A passing result.
PassedResult == [status |-> "passed", all_passed |-> TRUE, failures |-> <<>>]

\* Variant of ErrorResult that files a runner fault as an ordinary failure.
ErrorResult_mut == [status |-> "failed", all_passed |-> FALSE, failures |-> <<>>]

\* The result _run_inspec_tests builds when the runner raises.
ErrorResult == [status |-> "error", all_passed |-> FALSE, failures |-> <<>>]

\* Results in which the profile ran and did not pass.
FailedResults == {[status |-> "failed", all_passed |-> FALSE, failures |-> f] :
                    f \in FailureLists}

\* session.state.get("test_results", {}) when the key is absent.
EmptyResult == [status |-> "none", all_passed |-> FALSE, failures |-> <<>>]

TestResults == {PassedResult, ErrorResult} \cup FailedResults

NoPrompt == [failures |-> <<>>, code |-> NoCode]

-----------------------------------------------------------------------------
(* Trace helpers *)

RECURSIVE CountOp(_, _)
CountOp(s, op) ==
    IF s = <<>> THEN 0
    ELSE (IF s[Len(s)].op = op THEN 1 ELSE 0) + CountOp(SubSeq(s, 1, Len(s) - 1), op)

Tests == CountOp(calls, "test")
Remediations == CountOp(calls, "remediate")
Generations == CountOp(calls, "generate")

\* A test invocation: the code under baseline_path, the result obtained, and
\* whether the runner raised.
TestRec(code, r, fault) ==
    [op |-> "test", code |-> code, result |-> r, out |-> NoCode, fault |-> fault]
\* An invocation of _remediate_failures.
RemediateRec ==
    [op |-> "remediate", code |-> NoCode, result |-> EmptyResult, out |-> NoCode,
     fault |-> FALSE]
\* A generator call: the code and the failures put into its prompt.
GenerateRec(code, fs) ==
    [op |-> "generate", code |-> code,
     result |-> [status |-> "none", all_passed |-> FALSE, failures |-> fs],
     out |-> NoCode, fault |-> FALSE]
\* A generator call returning code c.
GeneratedRec(c) ==
    [op |-> "generated", code |-> NoCode, result |-> EmptyResult, out |-> c,
     fault |-> FALSE]
\* A generator call raising.
RaisedRec ==
    [op |-> "raised", code |-> NoCode, result |-> EmptyResult, out |-> NoCode,
     fault |-> TRUE]

\* Variant of Event that files the two counts under each other's key.
Event_mut(status, n, m, r) ==
    [status |-> status, iterations |-> m, message |-> n, final_test_results |-> r,
     code |-> NoCode]

\* What a terminal event or result tells the caller: its status, the value
\* of its "iterations" key (-1: no such key), the iteration count its
\* message text states (-1: none), its "final_test_results", and the code
\* it carries (no content dict of either variant has a code key).
Event(status, n, m, r) ==
    [status |-> status, iterations |-> n, message |-> m, final_test_results |-> r,
     code |-> NoCode]

-----------------------------------------------------------------------------
(* Example Store: data *)

\* Baseline locations handed to the ingest operations as baseline_path.
Sources == {"a", "b"}

\* Control ids and title texts occurring in the files.
ControlIds == {1, 2}
Titles == {1, 2}
NoTitle == 0                \* "No title found"

\* A .rb file is a sequence of lines.  Only what the regular expressions of
\* the parsers look at is kept of a line:
\*   control 'V-<v>' do   a control line with a quoted id
\*   control do           a control line without one (v = 0)
\*   title '<v>'
\*   describe '...' do    the opening of a nested block
\*   end                  a line ending in "end", at any indentation
ControlLine(id) == [k |-> "control", v |-> id]
ControlLineNoId == [k |-> "control", v |-> 0]
TitleLine(t) == [k |-> "title", v |-> t]
DescribeLine == [k |-> "describe", v |-> 0]
EndLine == [k |-> "end", v |-> 0]

\* A control block with id and title, with or without a nested describe
\* block (tests/conftest.py sample_inspec_control has one).
WellFormed(id, t, nested) ==
    <<ControlLine(id), TitleLine(t)>>
        \o (IF nested THEN <<DescribeLine, EndLine>> ELSE <<>>)
        \o <<EndLine>>
\* A well-formed block that declares its title after the describe block.
TitleLast(id, t) ==
    <<ControlLine(id), DescribeLine, EndLine, TitleLine(t), EndLine>>
\* Malformed blocks: no title, no id.
MissingTitle(id) == <<ControlLine(id), DescribeLine, EndLine, EndLine>>
MissingId(t) == <<ControlLineNoId, TitleLine(t), EndLine>>

RECURSIVE Concat(_)
Concat(ss) == IF ss = <<>> THEN <<>> ELSE ss[1] \o Concat(Tail(ss))

\* Sequences over S of length at most n.
SeqsUpTo(S, n) == UNION {[1..m -> S] : m \in 0..n}

\* The key of a collection entry.  manage_baseline_memory builds it from
\* the baseline path, the control id and the file name; add_to_memory uses
\* the control id alone (source "" and file 0 here).
EntryId(s, id, f) == [source |-> s, control_id |-> id, file |-> f]

\* A collection: whether the module got hold of it at import, and its entries.
NoCollection == [available |-> FALSE, entries |-> {}]
EmptyCollection == [available |-> TRUE, entries |-> {}]

\* The value of result before any operation has run.
\* op and source: the operation and its baseline_path; status and message:
\* the returned dict; count: the number of controls it reports (-1: none);
\* skipped: how many of the ids it passed to add were already stored;
\* results: its "results" list; raised: the call raised instead of
\* returning; query and generated: for the Coding Agent, the status of its
\* memory query and whether the generator was invoked.
NoResult ==
    [op |-> "none", source |-> "", status |-> "none", message |-> "",
     count |-> -1, skipped |-> 0, results |-> <<>>, raised |-> FALSE,
     query |-> "none", generated |-> FALSE]

\* The Example Store as seen by a run of the repair loop: not touched.
StoreIdle ==
    /\ tree = <<>>
    /\ rev = 1
    /\ examples_collection = NoCollection
    /\ legacy_collection = NoCollection
    /\ result = NoResult
    /\ file_content = <<>>
    /\ found_controls = [done |-> FALSE, controls |-> <<>>]

\* No Example Store call is running.
NoTasks == <<>>

\* The orchestrator has not been run, run_inspec_tests has not been called
\* and common/config.py has not been imported.
NoOrchestrator ==
    [pc |-> "none", product |-> FALSE, events |-> <<>>, structure |-> FALSE,
     archive |-> FALSE, artifact |-> FALSE, raised |-> FALSE]
NoProc == [raises |-> "none", returncode |-> "zero", stdout |-> <<>>, stderr |-> 0]
NoReturn ==
    [status |-> "none", keys |-> {}, data |-> 0, message |-> "none", stderr |-> 0,
     raised |-> FALSE]
NoInspec == [pc |-> "none", proc |-> NoProc, returned |-> NoReturn]
NoEnv ==
    [pc |-> "none", DOTENV_AVAILABLE |-> FALSE, file |-> "missing",
     ENV_LOADED |-> FALSE, loaded |-> FALSE, calls |-> <<>>]
RestIdle ==
    /\ orchestrator = NoOrchestrator
    /\ inspec = NoInspec
    /\ env = NoEnv

-----------------------------------------------------------------------------
(* Initial state: the session state the run finds at entry *)

InitQARun ==
    /\ variant \in {"qa", "qa_old"}
    /\ pc = "start"
    /\ baseline_path \in BOOLEAN
    /\ iteration = NoIteration
    /\ test_results \in (IF variant = "qa" THEN TestResults \cup {EmptyResult}
                         ELSE {EmptyResult})
    /\ tested = FALSE
    /\ baseline_code = 0
    /\ current_baseline_code \in Codes
    /\ remediated_code = NoCode
    /\ remediation_prompt = NoPrompt
    /\ fidx = 0
    /\ events = <<>>
    /\ outcome = "running"
    /\ calls = <<>>

InitQA ==
    /\ InitQARun
    /\ StoreIdle
    /\ tasks = NoTasks
    /\ RestIdle

-----------------------------------------------------------------------------
(* _run_async_impl, entry: the baseline_path guard (both variants) *)

RunStart ==
    /\ pc = "start"
    /\ IF ~baseline_path
       THEN /\ events' = Append(events, Event("error", -1, -1, EmptyResult))
            /\ outcome' = "error"
            /\ pc' = "done"
            /\ UNCHANGED iteration
       ELSE /\ pc' = "test"
            /\ iteration' = (IF variant = "qa_old" THEN 0 ELSE iteration)
            /\ UNCHANGED <<events, outcome>>
    /\ UNCHANGED <<variant, baseline_path, test_results, tested,
                   baseline_code, current_baseline_code, remediated_code,
                   remediation_prompt, fidx, calls>>
    /\ UNCHANGED <<storeVars, tasks, restVars>>

-----------------------------------------------------------------------------
(* qa.py *)

\* Variant of TestBaselinePassed with the test of all_passed inverted.
TestBaselinePassed_mut(r) == ~r.all_passed

\* _test_baseline: True iff session.state["test_results"]["all_passed"].
TestBaselinePassed(r) == r.all_passed

\* Variant of QaHasBudget that also remediates after the last pass.
QaHasBudget_mut(it) == it < max_iterations

\* Whether the loop remediates after a failing test of this iteration.
QaHasBudget(it) == it < max_iterations - 1

\* The value range(max_iterations) binds next.
QaLoopNext(it) == it + 1

\* Variant of AfterSuccess without the return that follows the success event.
AfterSuccess_mut == "test"

\* The return that follows the success event.
AfterSuccess == "done"

\* One pass of the for loop up to its next suspension or exit.
QaTestBaseline ==
    /\ variant = "qa"
    /\ pc = "test"
    /\ QaLoopNext(iteration) < max_iterations
    /\ iteration' = QaLoopNext(iteration)
    /\ calls' = Append(calls, TestRec(baseline_code, test_results, FALSE))
    /\ IF TestBaselinePassed(test_results)
       THEN /\ events' = Append(events, Event("success", -1, -1, EmptyResult))
            /\ outcome' = "success"
            /\ pc' = AfterSuccess
       ELSE IF QaHasBudget(iteration')
            THEN /\ pc' = "remediate"
                 /\ UNCHANGED <<events, outcome>>
            ELSE /\ events' = Append(events, Event("failed", -1, -1, EmptyResult))
                 /\ outcome' = "failed"
                 /\ pc' = "done"
    /\ UNCHANGED <<variant, baseline_path, test_results, tested,
                   baseline_code, current_baseline_code, remediated_code,
                   remediation_prompt, fidx>>
    /\ UNCHANGED <<storeVars, tasks, restVars>>

\* Variant of QaPromptFailures that keeps the first FailureLimit failures only.
QaPromptFailures_mut(r) == SubSeq(r.failures, 1, Min(Len(r.failures), FailureLimit))

\* The failures formatted into REMEDIATION_PROMPT: the whole "failures" list
\* of the session's test_results.
QaPromptFailures(r) == r.failures

\* _remediate_failures up to the await on llm_agent.run_async.
QaRemediateFailures ==
    /\ variant = "qa"
    /\ pc = "remediate"
    /\ remediation_prompt' = [failures |-> QaPromptFailures(test_results),
                              code |-> current_baseline_code]
    /\ calls' = calls \o <<RemediateRec,
                           GenerateRec(current_baseline_code,
                                       QaPromptFailures(test_results))>>
    /\ pc' = "llm"
    /\ UNCHANGED <<variant, baseline_path, iteration, test_results, tested,
                   baseline_code, current_baseline_code, remediated_code,
                   fidx, events, outcome>>
    /\ UNCHANGED <<storeVars, tasks, restVars>>

\* The LLM agent finishes: its output lands in session state under
\* output_key "remediated_code".  The session state is shared with the other
\* agents of the pipeline, so "test_results" may have been rewritten while
\* the controller was suspended.
QaLlmReturn ==
    /\ variant = "qa"
    /\ pc = "llm"
    /\ \E c \in Codes, r \in TestResults \cup {EmptyResult} :
          /\ remediated_code' = c
          /\ test_results' = r
          /\ calls' = Append(calls, GeneratedRec(c))
    /\ pc' = "test"
    /\ UNCHANGED <<variant, baseline_path, iteration, tested, baseline_code,
                   current_baseline_code, remediation_prompt, fidx, events, outcome>>
    /\ UNCHANGED <<storeVars, tasks, restVars>>

\* The LLM agent raises: nothing in qa.py catches it.
QaLlmRaise ==
    /\ variant = "qa"
    /\ pc = "llm"
    /\ calls' = Append(calls, RaisedRec)
    /\ outcome' = "raised"
    /\ pc' = "done"
    /\ UNCHANGED <<variant, baseline_path, iteration, test_results, tested,
                   baseline_code, current_baseline_code, remediated_code,
                   remediation_prompt, fidx, events>>
    /\ UNCHANGED <<storeVars, tasks, restVars>>

-----------------------------------------------------------------------------
(* qa_old.py *)

\* Variant of OldHasBudget that gives up one pass early.
OldHasBudget_mut(it) == it < max_iterations - 1

\* Whether the loop remediates after a failing test (iteration is 1-based).
OldHasBudget(it) == it < max_iterations

\* Variant of OldIncrement that counts a pass twice.
OldIncrement_mut(it) == it + 2

\* iteration += 1
OldIncrement(it) == it + 1

\* Variant of OldReportedIterations that reports the 0-based index.
OldReportedIterations_mut(it) == it - 1

\* The "iterations" entry of the success result.
OldReportedIterations(it) == it

\* What the runner tool can return when it does not raise.
ToolResults == {PassedResult} \cup FailedResults

\* _run_inspec_tests: the tool's result, or the error result when it raises.
RunInspecTests(fault, r) == IF fault THEN ErrorResult ELSE r

\* One pass of the while loop: iteration += 1, _run_inspec_tests, the
\* all_passed exit, and the budget test.
OldRunInspecTests ==
    /\ variant = "qa_old"
    /\ pc = "test"
    /\ iteration < max_iterations
    /\ iteration' = OldIncrement(iteration)
    /\ \E fault \in BOOLEAN, t \in ToolResults :
        LET r == RunInspecTests(fault, t) IN
          /\ fault => t = PassedResult
          /\ test_results' = r
          /\ tested' = TRUE
          /\ calls' = Append(calls, TestRec(baseline_code, r, fault))
          /\ IF r.all_passed
             THEN /\ events' = Append(events,
                         Event("success", OldReportedIterations(iteration'), -1, EmptyResult))
                  /\ outcome' = "success"
                  /\ pc' = "done"
             ELSE IF OldHasBudget(iteration')
                  THEN /\ pc' = "remediate"
                       /\ UNCHANGED <<events, outcome>>
                  ELSE /\ events' = Append(events, Event("failure", -1, iteration', r))
                       /\ outcome' = "failed"
                       /\ pc' = "done"
    /\ UNCHANGED <<variant, baseline_path, baseline_code, current_baseline_code,
                   remediated_code, remediation_prompt, fidx>>
    /\ UNCHANGED <<storeVars, tasks, restVars>>

\* Variant of OldFailures that stops after the first failure.
OldFailures_mut(r) == SubSeq(r.failures, 1, Min(Len(r.failures), 1))

\* The failures _remediate_failures works through.
OldFailures(r) == SubSeq(r.failures, 1, Min(Len(r.failures), FailureLimit))

\* _remediate_failures up to its first llm.predict, or its return when the
\* result lists no failures.
OldRemediateFailures ==
    /\ variant = "qa_old"
    /\ pc = "remediate"
    /\ IF OldFailures(test_results) = <<>>
       THEN /\ calls' = Append(calls, RemediateRec)
            /\ pc' = "test"
            /\ UNCHANGED <<fidx, remediation_prompt>>
       ELSE /\ fidx' = 1
            /\ remediation_prompt' = [failures |-> <<test_results.failures[1]>>,
                                      code |-> NoCode]
            /\ calls' = calls \o <<RemediateRec,
                                   GenerateRec(NoCode, <<test_results.failures[1]>>)>>
            /\ pc' = "llm"
    /\ UNCHANGED <<variant, baseline_path, iteration, test_results, tested,
                   baseline_code, current_baseline_code, remediated_code,
                   events, outcome>>
    /\ UNCHANGED <<storeVars, tasks, restVars>>

\* llm.predict returns: the fix is logged, then the next failure is taken
\* up or _remediate_failures returns success.
OldLlmReturn ==
    /\ variant = "qa_old"
    /\ pc = "llm"
    /\ \E c \in Codes :
          /\ remediated_code' = c
          /\ IF fidx < Len(OldFailures(test_results))
             THEN /\ fidx' = fidx + 1
                  /\ remediation_prompt' =
                        [failures |-> <<test_results.failures[fidx + 1]>>,
                         code |-> NoCode]
                  /\ calls' = calls \o
                        <<GeneratedRec(c),
                          GenerateRec(NoCode, <<test_results.failures[fidx + 1]>>)>>
                  /\ pc' = "llm"
             ELSE /\ calls' = Append(calls, GeneratedRec(c))
                  /\ pc' = "test"
                  /\ UNCHANGED <<fidx, remediation_prompt>>
    /\ UNCHANGED <<variant, baseline_path, iteration, test_results, tested,
                   baseline_code, current_baseline_code, events, outcome>>
    /\ UNCHANGED <<storeVars, tasks, restVars>>

\* Variant of OldLlmRaise that swallows the error and goes on to the next pass.
OldLlmRaise_mut ==
    /\ variant = "qa_old"
    /\ pc = "llm"
    /\ calls' = Append(calls, RaisedRec)
    /\ pc' = "test"
    /\ UNCHANGED <<variant, baseline_path, iteration, test_results, tested,
                   baseline_code, current_baseline_code, remediated_code,
                   remediation_prompt, fidx, events, outcome>>
    /\ UNCHANGED <<storeVars, tasks, restVars>>

\* llm.predict raises: _remediate_failures returns success False, the loop
\* breaks and the failure result is returned.
OldLlmRaise ==
    /\ variant = "qa_old"
    /\ pc = "llm"
    /\ calls' = Append(calls, RaisedRec)
    /\ events' = Append(events, Event("failure", -1, iteration, test_results))
    /\ outcome' = "failed"
    /\ pc' = "done"
    /\ UNCHANGED <<variant, baseline_path, iteration, test_results, tested,
                   baseline_code, current_baseline_code, remediated_code,
                   remediation_prompt, fidx>>
    /\ UNCHANGED <<storeVars, tasks, restVars>>

-----------------------------------------------------------------------------------------------------------------------------------------------------
(* The (code, TestResult) pairs the controller itself holds: qa_old.py      *)
(* keeps the latest result in its local test_results, qa.py keeps only the  *)
(* boolean of the current pass.                                             *)

history ==
    IF variant = "qa_old" /\ tested
    THEN <<[code |-> baseline_code, result |-> test_results]>>
    ELSE <<>>

-----------------------------------------------------------------------------

NextQA ==
    \/ RunStart
    \/ QaTestBaseline
    \/ QaRemediateFailures
    \/ QaLlmReturn
    \/ QaLlmRaise
    \/ OldRunInspecTests
    \/ OldRemediateFailures
    \/ OldLlmReturn
    \/ OldLlmRaise

SpecQA == InitQA /\ [][NextQA]_vars

\* Every await of the run returns or raises.
FairSpecQA == SpecQA /\ WF_vars(NextQA)

-----------------------------------------------------------------------------
(* External cancellation of the task running the coroutine: CancelledError  *)
(* is delivered at the await the coroutine is suspended in and nothing in   *)
(* either variant catches it.  qa.py suspends only inside the generator     *)
(* call; qa_old.py also awaits its log calls at the top of a pass and       *)
(* before remediation.                                                      *)

CancelPoints == IF variant = "qa" THEN {"llm"} ELSE {"test", "remediate", "llm"}

\* Variant of Cancel in which the cancellation is swallowed and the run goes on.
Cancel_mut ==
    /\ pc \in CancelPoints
    /\ outcome = "running"
    /\ outcome' = "cancelled"
    /\ UNCHANGED <<variant, pc, baseline_path, iteration, test_results, tested,
                   baseline_code, current_baseline_code, remediated_code,
                   remediation_prompt, fidx, events, calls>>
    /\ UNCHANGED <<storeVars, tasks, restVars>>

Cancel ==
    /\ pc \in CancelPoints
    /\ outcome' = "cancelled"
    /\ pc' = "done"
    /\ UNCHANGED <<variant, baseline_path, iteration, test_results, tested,
                   baseline_code, current_baseline_code, remediated_code,
                   remediation_prompt, fidx, events, calls>>
    /\ UNCHANGED <<storeVars, tasks, restVars>>

NextQACancel == NextQA \/ Cancel

SpecQACancel == InitQA /\ [][NextQACancel]_vars

TypeOK ==
    /\ variant \in {"qa", "qa_old"}
    /\ pc \in {"start", "test", "remediate", "llm", "done"}
    /\ iteration \in NoIteration..max_iterations
    /\ outcome \in {"running", "success", "failed", "error", "raised", "cancelled"}
    /\ Len(events) <= 1

-----------------------------------------------------------------------------
(* Example Store: the two parsers of services/memory/tool.py *)

MaxBlocks == 3              \* most control blocks in one file or directory

\* The repair loop as seen by the Example Store: not running.
QaIdle ==
    /\ variant = "qa"
    /\ pc = "done"
    /\ baseline_path = FALSE
    /\ iteration = NoIteration
    /\ test_results = EmptyResult
    /\ tested = FALSE
    /\ baseline_code = 0
    /\ current_baseline_code = 0
    /\ remediated_code = NoCode
    /\ remediation_prompt = NoPrompt
    /\ fidx = 0
    /\ events = <<>>
    /\ outcome = "running"
    /\ calls = <<>>

\* Index of the first line at or after from that a pattern starting with
\* control\s*['"] matches (0: none).
FirstControl(lines, from) ==
    LET S == {j \in from..Len(lines) : lines[j].k = "control" /\ lines[j].v # 0}
    IN IF S = {} THEN 0 ELSE CHOOSE j \in S : \A m \in S : j <= m

\* Index of the first line of the given kind at or after from (0: none).
FirstLine(lines, from, kind) ==
    LET S == {j \in from..Len(lines) : lines[j].k = kind}
    IN IF S = {} THEN 0 ELSE CHOOSE j \in S : \A m \in S : j <= m

\* title_pattern.search / title_match: the text of the first title line.
TitleSearch(lines) ==
    IF FirstLine(lines, 1, "title") = 0 THEN NoTitle
    ELSE lines[FirstLine(lines, 1, "title")].v

\* id_pattern.search / control_match: the id of the first control line that
\* quotes one (0: no match).
IdSearch(lines) ==
    IF FirstControl(lines, 1) = 0 THEN 0 ELSE lines[FirstControl(lines, 1)].v

\* Where a match of control_pattern that starts at line i ends: the pattern
\* is ^(control\s*['"].*?['"]\s*do.*?end)$ under MULTILINE | DOTALL, and its
\* lazy .*?end$ stops at the first later line that ends in "end".
ControlPatternEnd(lines, i) == FirstLine(lines, i + 1, "end")

\* control_pattern.finditer(file_content): the matched texts, in order;
\* the scan resumes after the end of each match.
RECURSIVE ControlPatternFindIter(_, _)
ControlPatternFindIter(lines, from) ==
    LET i == FirstControl(lines, from) IN
      IF i = 0 \/ ControlPatternEnd(lines, i) = 0 THEN <<>>
      ELSE <<SubSeq(lines, i, ControlPatternEnd(lines, i))>>
              \o ControlPatternFindIter(lines, ControlPatternEnd(lines, i) + 1)

\* The loop body of parse_inspec_controls_from_file over the matches: a
\* match is appended only if both the id and the title pattern match in it.
RECURSIVE FoundControls(_)
FoundControls(matches) ==
    IF matches = <<>> THEN <<>>
    ELSE (IF IdSearch(matches[1]) # 0 /\ TitleSearch(matches[1]) # NoTitle
          THEN <<[id |-> IdSearch(matches[1]),
                  description |-> TitleSearch(matches[1]),
                  code |-> matches[1]]>>
          ELSE <<>>) \o FoundControls(Tail(matches))

parse_inspec_controls_from_file(content) ==
    FoundControls(ControlPatternFindIter(content, 1))

\* _parse_inspec_control returning None.
NoControl == [id |-> 0, title |-> NoTitle, content |-> <<>>]

\* Variant of ParseInspecControl that rejects a file without a title.
ParseInspecControl_mut(content) ==
    IF IdSearch(content) = 0 \/ TitleSearch(content) = NoTitle THEN NoControl
    ELSE [id |-> IdSearch(content), title |-> TitleSearch(content),
          content |-> content]

\* _parse_inspec_control(file_path): the first quoted control id and the
\* first title anywhere in the file, and the whole file as content; a file
\* without a title still yields a control ("No title found").
ParseInspecControl(content) ==
    IF IdSearch(content) = 0 THEN NoControl
    ELSE [id |-> IdSearch(content), title |-> TitleSearch(content),
          content |-> content]

\* The control blocks a file is written from.
ParseBlocks ==
    {WellFormed(i, t, n) : i \in ControlIds, t \in Titles, n \in BOOLEAN}
        \cup {TitleLast(i, 1) : i \in ControlIds}
        \cup {MissingTitle(i) : i \in ControlIds}
        \cup {MissingId(1)}

ParseFiles == {Concat(bs) : bs \in SeqsUpTo(ParseBlocks, MaxBlocks)}

NotParsed == [done |-> FALSE, controls |-> <<>>]

InitParse ==
    /\ QaIdle
    /\ tasks = NoTasks
    /\ RestIdle
    /\ tree = <<>>
    /\ rev = 1
    /\ examples_collection = NoCollection
    /\ legacy_collection = NoCollection
    /\ result = NoResult
    /\ file_content \in ParseFiles
    /\ found_controls = NotParsed

\* A call of parse_inspec_controls_from_file(file_content).
ParseFile ==
    /\ ~found_controls.done
    /\ found_controls' =
          [done |-> TRUE, controls |-> parse_inspec_controls_from_file(file_content)]
    /\ UNCHANGED <<qaVars, restVars, tasks, tree, rev, examples_collection,
                   legacy_collection, result, file_content>>

NextParse == ParseFile

SpecParse == InitParse /\ [][NextParse]_vars

-----------------------------------------------------------------------------
(* Example Store: the baseline directories and the collections *)

\* The control blocks the files of a baseline are written from.
StoreBlocks ==
    {WellFormed(1, 1, FALSE), WellFormed(2, 1, TRUE), MissingTitle(2), MissingId(1)}

\* The files obtained by cutting a sequence of blocks after the positions
\* in cuts.
RECURSIVE Split(_, _, _, _)
Split(bs, cuts, i, cur) ==
    IF i > Len(bs) THEN <<>>
    ELSE IF i \in cuts \/ i = Len(bs)
         THEN <<cur \o bs[i]>> \o Split(bs, cuts, i + 1, <<>>)
         ELSE Split(bs, cuts, i + 1, cur \o bs[i])

\* The directories of .rb files holding at most n control blocks in all;
\* <<>> is a directory without any .rb file.
Trees(n) ==
    {Split(bs, cuts, 1, <<>>) :
        bs \in SeqsUpTo(StoreBlocks, n), cuts \in SUBSET (1..(n - 1))}

\* A line as it reads in revision r of the baseline: revision 2 rewords
\* every title.
ReviseLine(l, r) == IF l.k = "title" /\ r = 2 THEN [l EXCEPT !.v = 3 - l.v] ELSE l

\* The .rb files found under a baseline location (file.read_text of each);
\* every location holds a copy of the same baseline.
Checkout(s) ==
    [f \in 1..Len(tree) |->
        [i \in 1..Len(tree[f]) |-> ReviseLine(tree[f][i], rev)]]

\* The metadata dicts of the two ingest operations.
CodeMetadata(code) ==
    [keys |-> {"code"}, code |-> code, source |-> "", control_id |-> 0]
SourceMetadata(s, id) ==
    [keys |-> {"source", "control_id"}, code |-> <<>>, source |-> s,
     control_id |-> id]

Ids(entries) == {e.id : e \in entries}

\* chromadb raises DuplicateIDError when one call passes the same id twice.
HasDuplicateIds(batch) ==
    \E i, j \in 1..Len(batch) : i < j /\ batch[i].id = batch[j].id

\* Variant of CollectionAdd that raises when an id is already stored.
CollectionAddRaises_mut(entries, batch) ==
    HasDuplicateIds(batch) \/ \E i \in 1..Len(batch) : batch[i].id \in Ids(entries)

\* Collection.add raising for the batch itself.
CollectionAddRaises(entries, batch) == HasDuplicateIds(batch)

\* Collection.add(ids, documents, metadatas) of chromadb >= 0.4 (the
\* version PersistentClient exists in): an id already in the collection is
\* skipped and its stored entry is kept.
CollectionAdd(entries, batch) ==
    entries \cup {batch[i] : i \in {j \in 1..Len(batch) : batch[j].id \notin Ids(entries)}}

\* Variant of RejectedAdd in which the first entry of the batch is written
\* before the batch is rejected.
RejectedAdd_mut(entries, batch) == CollectionAdd(entries, SubSeq(batch, 1, 1))

\* The entries of a collection after an add that raised: the one add call
\* of an ingest either takes the whole batch or leaves the collection as it
\* was.
RejectedAdd(entries, batch) == entries

\* How many entries of the batch carry an id the collection already holds.
Skipped(entries, batch) ==
    Cardinality({i \in 1..Len(batch) : batch[i].id \in Ids(entries)})

\* Rank of an entry for a query text: embedding distance is rendered as the
\* distance between the query and the first title of the document, ties
\* broken by the id.
SourceNo(s) == IF s = "" THEN 0 ELSE IF s = "a" THEN 1 ELSE 2

\* Variant of Rank that puts the farthest entry first.
Rank_mut(e, q) ==
    (9 - (IF TitleSearch(e.document) > q THEN TitleSearch(e.document) - q
          ELSE q - TitleSearch(e.document))) * 1000
        + SourceNo(e.id.source) * 100 + e.id.control_id * 10 + e.id.file

Rank(e, q) ==
    (IF TitleSearch(e.document) > q THEN TitleSearch(e.document) - q
     ELSE q - TitleSearch(e.document)) * 1000
        + SourceNo(e.id.source) * 100 + e.id.control_id * 10 + e.id.file

\* Collection.query(query_texts=[q], n_results=n): the n nearest entries,
\* nearest first; fewer when the collection holds fewer.
RECURSIVE CollectionQuery(_, _, _)
CollectionQuery(entries, q, n) ==
    IF n = 0 \/ entries = {} THEN <<>>
    ELSE LET e == CHOOSE x \in entries : \A y \in entries : Rank(x, q) <= Rank(y, q)
         IN <<e>> \o CollectionQuery(entries \ {e}, q, n - 1)

-----------------------------------------------------------------------------
(* Example Store: the operations of services/memory/tool.py *)

MaxResults == 2             \* n_results of a direct query_memory call: 1..MaxResults

ManageQueryResults == 5     \* n_results=5 of manage_baseline_memory
DefaultResults == 3         \* n_results: int = 3 of query_memory

\* A returned status dict.
Returned(op, s, status, message, count, results) ==
    [op |-> op, source |-> s, status |-> status, message |-> message,
     count |-> count, skipped |-> 0, results |-> results, raised |-> FALSE,
     query |-> "none", generated |-> FALSE]

\* An exception leaving the operation.
Raised(op, s) ==
    [op |-> op, source |-> s, status |-> "none", message |-> "exception",
     count |-> -1, skipped |-> 0, results |-> <<>>, raised |-> TRUE,
     query |-> "none", generated |-> FALSE]

\* target_collection = legacy_collection if legacy_collection else
\* examples_collection
TargetIsLegacy == legacy_collection.available

target_collection == IF TargetIsLegacy THEN legacy_collection ELSE examples_collection

\* all_controls of add_to_memory: the controls parsed from every file, in
\* file order.
AllControls(files) ==
    Concat([f \in 1..Len(files) |-> parse_inspec_controls_from_file(files[f])])

\* The ids, documents and metadatas add_to_memory passes to add.
LegacyBatch(all_controls) ==
    [i \in 1..Len(all_controls) |->
        [id |-> EntryId("", all_controls[i].id, 0),
         document |-> <<TitleLine(all_controls[i].description)>>,
         metadata |-> CodeMetadata(all_controls[i].code)]]

\* The files of a directory in which _parse_inspec_control finds a control.
ControlFiles(files) ==
    SelectSeq([f \in 1..Len(files) |-> f],
              LAMBDA f : ParseInspecControl(files[f]) # NoControl)

\* The documents, metadatas and ids manage_baseline_memory passes to add:
\* one entry per file with a control, keyed by path, control id and file.
ExamplesBatch(s, files) ==
    [i \in 1..Len(ControlFiles(files)) |->
        LET f == ControlFiles(files)[i] IN
          [id |-> EntryId(s, ParseInspecControl(files[f]).id, f),
           document |-> ParseInspecControl(files[f]).content,
           metadata |-> SourceMetadata(s, ParseInspecControl(files[f]).id)]]

\* Writing the entries of the collection add_to_memory targets.
WriteTarget(entries) ==
    IF TargetIsLegacy
    THEN /\ legacy_collection' = [legacy_collection EXCEPT !.entries = entries]
         /\ UNCHANGED examples_collection
    ELSE /\ examples_collection' = [examples_collection EXCEPT !.entries = entries]
         /\ UNCHANGED legacy_collection

\* Variant of NothingToAddStatus that reports success in both cases.
NothingToAddStatus_mut(files) == "success"

\* The status add_to_memory returns when it has nothing to add: failure
\* when the directory holds no .rb file, success when its files hold no
\* control the parser accepts.
NothingToAddStatus(files) == IF files = <<>> THEN "failure" ELSE "success"

\* add_to_memory(baseline_path = s); fault: the collection's add raises.
AddToMemory(s, fault) ==
    LET files == Checkout(s)
        batch == LegacyBatch(AllControls(files))
    IN
      /\ IF ~target_collection.available
         THEN /\ result' = Returned("add_to_memory", s, "failure", "unavailable", -1, <<>>)
              /\ UNCHANGED <<examples_collection, legacy_collection>>
         ELSE IF batch = <<>>
         THEN /\ result' = Returned("add_to_memory", s, NothingToAddStatus(files),
                                    IF files = <<>> THEN "no_rb_files" ELSE "no_controls",
                                    -1, <<>>)
              /\ UNCHANGED <<examples_collection, legacy_collection>>
         ELSE IF fault \/ CollectionAddRaises(target_collection.entries, batch)
         THEN /\ result' = Returned("add_to_memory", s, "failure", "exception", -1, <<>>)
              /\ WriteTarget(RejectedAdd(target_collection.entries, batch))
         ELSE /\ result' = [Returned("add_to_memory", s, "success", "added",
                                     Len(batch), <<>>)
                               EXCEPT !.skipped = Skipped(target_collection.entries, batch)]
              /\ WriteTarget(CollectionAdd(target_collection.entries, batch))
      /\ UNCHANGED <<qaVars, restVars, tree, rev, file_content, found_controls>>

\* manage_baseline_memory(action="add", baseline_path = s); fault: the
\* collection's add raises.  Nothing around the add catches an exception.
ManageAdd(s, fault) ==
    LET batch == ExamplesBatch(s, Checkout(s)) IN
      /\ IF ~examples_collection.available
         THEN /\ result' = Returned("manage_add", s, "error", "unavailable", -1, <<>>)
              /\ UNCHANGED examples_collection
         ELSE IF batch = <<>>
         THEN /\ result' = Returned("manage_add", s, "warning", "no_controls", -1, <<>>)
              /\ UNCHANGED examples_collection
         ELSE IF fault \/ CollectionAddRaises(examples_collection.entries, batch)
         THEN /\ result' = Raised("manage_add", s)
              /\ examples_collection' =
                    [examples_collection EXCEPT
                        !.entries = RejectedAdd(examples_collection.entries, batch)]
         ELSE /\ result' = [Returned("manage_add", s, "success", "added",
                                     Len(batch), <<>>)
                               EXCEPT !.skipped = Skipped(examples_collection.entries, batch)]
              /\ examples_collection' =
                    [examples_collection EXCEPT
                        !.entries = CollectionAdd(examples_collection.entries, batch)]
      /\ UNCHANGED <<qaVars, restVars, tree, rev, legacy_collection, file_content,
                     found_controls>>

\* Variant of QueryMemoryReturn without the try/except around the query.
QueryMemoryReturn_mut(q, n, fault) ==
    IF ~target_collection.available
    THEN Returned("query_memory", "", "failure", "unavailable", -1, <<>>)
    ELSE IF fault
    THEN Raised("query_memory", "")
    ELSE LET found == CollectionQuery(target_collection.entries, q, n) IN
           Returned("query_memory", "", "success", "", -1,
                    [i \in 1..Len(found) |-> found[i].metadata])

\* What query_memory(control_description = q, n_results = n) returns;
\* fault: the collection's query raises.
QueryMemoryReturn(q, n, fault) ==
    IF ~target_collection.available
    THEN Returned("query_memory", "", "failure", "unavailable", -1, <<>>)
    ELSE IF fault
    THEN Returned("query_memory", "", "failure", "exception", -1, <<>>)
    ELSE LET found == CollectionQuery(target_collection.entries, q, n) IN
           Returned("query_memory", "", "success", "", -1,
                    [i \in 1..Len(found) |-> found[i].metadata])

QueryMemory(q, n, fault) ==
    /\ result' = QueryMemoryReturn(q, n, fault)
    /\ UNCHANGED <<qaVars, restVars, tree, rev, examples_collection, legacy_collection,
                   file_content, found_controls>>

\* Variant of ManageQueryReturn that reports an empty collection as an
\* error.
ManageQueryReturn_mut(q, fault) ==
    IF ~examples_collection.available
    THEN Returned("manage_query", "", "error", "unavailable", -1, <<>>)
    ELSE IF q = 0
    THEN Returned("manage_query", "", "error", "no_query_text", -1, <<>>)
    ELSE IF fault
    THEN Raised("manage_query", "")
    ELSE IF examples_collection.entries = {}
    THEN Returned("manage_query", "", "error", "no_results", -1, <<>>)
    ELSE LET found == CollectionQuery(examples_collection.entries, q,
                                      ManageQueryResults) IN
           Returned("manage_query", "", "success", "", -1,
                    [i \in 1..Len(found) |-> found[i].document])

\* What manage_baseline_memory(action="query", query_text = q) returns, q = 0
\* standing for no query text; fault: the collection's query raises.
ManageQueryReturn(q, fault) ==
    IF ~examples_collection.available
    THEN Returned("manage_query", "", "error", "unavailable", -1, <<>>)
    ELSE IF q = 0
    THEN Returned("manage_query", "", "error", "no_query_text", -1, <<>>)
    ELSE IF fault
    THEN Raised("manage_query", "")
    ELSE LET found == CollectionQuery(examples_collection.entries, q,
                                      ManageQueryResults) IN
           Returned("manage_query", "", "success", "", -1,
                    [i \in 1..Len(found) |-> found[i].document])

ManageQuery(q, fault) ==
    /\ result' = ManageQueryReturn(q, fault)
    /\ UNCHANGED <<qaVars, restVars, tree, rev, examples_collection, legacy_collection,
                   file_content, found_controls>>

\* The files of the baseline are replaced by those of its other revision.
Revise ==
    /\ rev' = 3 - rev
    /\ result' = [NoResult EXCEPT !.op = "revise"]
    /\ UNCHANGED <<qaVars, restVars, tree, examples_collection, legacy_collection,
                   file_content, found_controls>>

-----------------------------------------------------------------------------
(* The Coding Agent's use of the Example Store *)

\* A result of the Coding Agent: the status it returns, the number of
\* examples put into the prompt, the status of its memory query, whether
\* the generator was invoked and whether the call raised.
CodingResult(op, status, examples, query, generated, raised) ==
    [op |-> op, source |-> "", status |-> status, message |-> "",
     count |-> examples, skipped |-> 0, results |-> <<>>, raised |-> raised,
     query |-> query, generated |-> generated]

\* The results the prompt's examples are taken from: those of a successful
\* query; otherwise examples_text stays "No relevant examples found in memory."
Examples(qr) == IF qr.status = "success" THEN qr.results ELSE <<>>

\* CodingAgent.on_event of agents/coding_agent.py for a control stub with
\* description q: the memory query with the default n_results, the examples
\* formatted from result["code"], then llm.predict.  Nothing in on_event
\* catches an exception of the awaited calls.
OnEvent(stub_ok, q, fault, llm_fault) ==
    LET qr == QueryMemoryReturn(q, DefaultResults, fault) IN
      /\ ~stub_ok => (q = 1 /\ ~fault /\ ~llm_fault)
      /\ result' =
            IF ~stub_ok
            THEN CodingResult("on_event", "none", -1, "none", FALSE, FALSE)
            ELSE IF qr.raised
            THEN CodingResult("on_event", "none", -1, "raised", FALSE, TRUE)
            ELSE IF \E i \in 1..Len(Examples(qr)) : "code" \notin Examples(qr)[i].keys
            THEN CodingResult("on_event", "none", -1, qr.status, FALSE, TRUE)
            ELSE IF llm_fault
            THEN CodingResult("on_event", "none", Len(Examples(qr)), qr.status,
                              TRUE, TRUE)
            ELSE CodingResult("on_event", "success", Len(Examples(qr)), qr.status,
                              TRUE, FALSE)
      /\ UNCHANGED <<qaVars, restVars, tree, rev, examples_collection, legacy_collection,
                     file_content, found_controls>>

\* CodingAgent._run_async_impl of agents/saf_stig_generator/coding.py: the
\* memory lookup is skipped (TODO), the prompt carries no examples, and the
\* LLM agent is run.
CodingRun(stub_ok, llm_fault) ==
    /\ ~stub_ok => ~llm_fault
    /\ result' =
          IF ~stub_ok
          THEN CodingResult("run_async_impl", "error", -1, "none", FALSE, FALSE)
          ELSE IF llm_fault
          THEN CodingResult("run_async_impl", "none", 0, "none", TRUE, TRUE)
          ELSE CodingResult("run_async_impl", "success", 0, "none", TRUE, FALSE)
    /\ UNCHANGED <<qaVars, restVars, tree, rev, examples_collection, legacy_collection,
                   file_content, found_controls>>

-----------------------------------------------------------------------------
(* Example Store: specification *)

\* The baselines the operations are run on: no .rb file; one control; two
\* controls in two files; the same control id in two files; nothing but a
\* malformed block.
StoreTrees ==
    {<<>>,
     <<WellFormed(1, 1, FALSE)>>,
     <<WellFormed(1, 1, FALSE), WellFormed(2, 1, TRUE)>>,
     <<WellFormed(1, 1, FALSE), WellFormed(1, 1, TRUE)>>,
     <<MissingId(1)>>}

\* Module initialisation: each collection is obtained or left None; the
\* baseline is checked out at both locations in its first revision.
InitStore ==
    /\ QaIdle
    /\ tasks = NoTasks
    /\ RestIdle
    /\ tree \in StoreTrees
    /\ rev = 1
    /\ examples_collection \in {NoCollection, EmptyCollection}
    /\ legacy_collection \in {NoCollection, EmptyCollection}
    /\ result = NoResult
    /\ file_content = <<>>
    /\ found_controls = NotParsed

NextStore ==
    \/ \E s \in Sources, fault \in BOOLEAN :
          AddToMemory(s, fault) /\ UNCHANGED tasks
    \/ \E s \in Sources, fault \in BOOLEAN :
          ManageAdd(s, fault) /\ UNCHANGED tasks
    \/ \E q \in Titles, n \in 1..MaxResults, fault \in BOOLEAN :
          QueryMemory(q, n, fault) /\ UNCHANGED tasks
    \/ \E q \in Titles \cup {0}, fault \in BOOLEAN :
          ManageQuery(q, fault) /\ UNCHANGED tasks
    \/ Revise /\ UNCHANGED tasks
    \/ \E stub_ok \in BOOLEAN, q \in Titles, fault \in BOOLEAN, llm_fault \in BOOLEAN :
          OnEvent(stub_ok, q, fault, llm_fault) /\ UNCHANGED tasks
    \/ \E stub_ok \in BOOLEAN, llm_fault \in BOOLEAN :
          CodingRun(stub_ok, llm_fault) /\ UNCHANGED tasks

SpecStore == InitStore /\ [][NextStore]_vars

\* One ingest of any directory of at most MaxBlocks control blocks into the
\* collections as obtained at import, the collection calls not raising.
InitIngest ==
    /\ QaIdle
    /\ tasks = NoTasks
    /\ RestIdle
    /\ tree \in Trees(MaxBlocks)
    /\ rev = 1
    /\ examples_collection \in {NoCollection, EmptyCollection}
    /\ legacy_collection \in {NoCollection, EmptyCollection}
    /\ result = NoResult
    /\ file_content = <<>>
    /\ found_controls = NotParsed

NextIngest ==
    \/ result = NoResult /\ AddToMemory("a", FALSE) /\ UNCHANGED tasks
    \/ result = NoResult /\ ManageAdd("a", FALSE) /\ UNCHANGED tasks

SpecIngest == InitIngest /\ [][NextIngest]_vars

-----------------------------------------------------------------------------
(* Example Store: calls running concurrently on the server's event loop *)

\* The tools are coroutines of one FastMCP server.  A coroutine gives up the
\* event loop only at an await: add_to_memory and query_memory await ctx.info
\* after choosing their collection and again (ctx.info or ctx.error) before
\* returning, manage_baseline_memory_mcp awaits ctx.info before calling the
\* synchronous manage_baseline_memory.  Everything between two awaits,
\* the reading and parsing of the files and the collection call included,
\* runs without interleaving.
TaskIds == {1, 2, 3}

Task(op, s, q) == [pc |-> "start", op |-> op, source |-> s, q |-> q, result |-> NoResult]

\* The tool call of task t, from where it stands to its next await or return.
TaskOp(t) ==
    \/ /\ tasks[t].op = "add_to_memory"
       /\ AddToMemory(tasks[t].source, FALSE)
    \/ /\ tasks[t].op = "manage_add"
       /\ ManageAdd(tasks[t].source, FALSE)
    \/ /\ tasks[t].op = "query_memory"
       /\ QueryMemory(tasks[t].q, DefaultResults, FALSE)
    \/ /\ tasks[t].op = "manage_query"
       /\ ManageQuery(tasks[t].q, FALSE)

\* add_to_memory and query_memory return at once when they have no
\* collection, before any await.
ReturnsBeforeAwait(t) ==
    tasks[t].op \in {"add_to_memory", "query_memory"} /\ ~target_collection.available

\* The call awaits ctx.info / ctx.error once more before it returns.
AwaitsBeforeReturn(op, r) ==
    \/ op = "add_to_memory" /\ r.message \in {"added", "exception"}
    \/ op = "query_memory"

\* The call is started and runs up to its first await.
TaskCall(t) ==
    /\ tasks[t].pc = "start"
    /\ IF ReturnsBeforeAwait(t)
       THEN /\ TaskOp(t)
            /\ tasks' = [tasks EXCEPT ![t].pc = "done", ![t].result = result']
       ELSE /\ tasks' = [tasks EXCEPT ![t].pc = "info"]
            /\ UNCHANGED <<qaVars, restVars, tree, rev, examples_collection,
                           legacy_collection, result, file_content, found_controls>>

\* The call is resumed after ctx.info and runs up to its next await or its
\* return.
TaskRun(t) ==
    /\ tasks[t].pc = "info"
    /\ TaskOp(t)
    /\ tasks' = [tasks EXCEPT
                    ![t].pc = IF AwaitsBeforeReturn(tasks[t].op, result')
                              THEN "logging" ELSE "done",
                    ![t].result = result']

\* The call is resumed after its last log call and returns.
TaskReturn(t) ==
    /\ tasks[t].pc = "logging"
    /\ tasks' = [tasks EXCEPT ![t].pc = "done"]
    /\ UNCHANGED <<qaVars, restVars, tree, rev, examples_collection,
                   legacy_collection, result, file_content, found_controls>>

\* Two ingests, of the locations "a" and "b", and one query are called
\* together.
InitConcurrent ==
    /\ QaIdle
    /\ RestIdle
    /\ tree \in StoreTrees
    /\ rev = 1
    /\ examples_collection \in {NoCollection, EmptyCollection}
    /\ legacy_collection \in {NoCollection, EmptyCollection}
    /\ result = NoResult
    /\ file_content = <<>>
    /\ found_controls = NotParsed
    /\ \E op1, op2 \in {"add_to_memory", "manage_add"},
          op3 \in {"query_memory", "manage_query"}, q \in Titles :
          tasks = <<Task(op1, "a", 0), Task(op2, "b", 0), Task(op3, "", q)>>

NextConcurrent ==
    \/ \E t \in TaskIds : TaskCall(t)
    \/ \E t \in TaskIds : TaskRun(t)
    \/ \E t \in TaskIds : TaskReturn(t)

SpecConcurrent == InitConcurrent /\ [][NextConcurrent]_vars

-----------------------------------------------------------------------------
(* OrchestratorAgent._run_async_impl of orchestrator.py *)

\* The run before its first step; product: session state "product" is set.
OrchestratorStart(product) == [NoOrchestrator EXCEPT !.pc = "start", !.product = product]

\* The event yielded last.
Yield(status) == [orchestrator EXCEPT !.events = Append(@, status)]

\* Variant of PackagingStatus that reports success whatever happened.
PackagingStatus_mut(fault) == "success"

\* The status of the event closing the try block: fault names the call of
\* the block that raised ("archive": ensure_dir or make_archive, "artifact":
\* Artifact(...) or session.create_artifact), "none" when none did.
PackagingStatus(fault) == IF fault = "none" THEN "success" ELSE "error"

\* Entry: without a product one event {"error": ...} and return; otherwise
\* the "started" event.
OrchestratorEnter ==
    /\ orchestrator.pc = "start"
    /\ orchestrator' =
          IF ~orchestrator.product
          THEN [Yield("no_product") EXCEPT !.pc = "done"]
          ELSE [Yield("started") EXCEPT !.pc = "started"]
    /\ UNCHANGED <<qaVars, storeVars, tasks, inspec, env>>

\* The simulated workflow: the "progress" event; nothing is called.
OrchestratorSimulate ==
    /\ orchestrator.pc = "started"
    /\ orchestrator' = [Yield("progress") EXCEPT !.pc = "structure"]
    /\ UNCHANGED <<qaVars, storeVars, tasks, inspec, env>>

\* The baseline directory with its sample control is written, outside any
\* try block, and the "Packaging" progress event is yielded; fault: a
\* file-system call raises.
OrchestratorStructure(fault) ==
    /\ orchestrator.pc = "structure"
    /\ orchestrator' =
          IF fault
          THEN [orchestrator EXCEPT !.pc = "done", !.raised = TRUE]
          ELSE [Yield("progress") EXCEPT !.pc = "packaging", !.structure = TRUE]
    /\ UNCHANGED <<qaVars, storeVars, tasks, inspec, env>>

\* The directory is archived, the archive registered as a session artifact
\* and the closing event yielded.
OrchestratorPackage(fault) ==
    /\ orchestrator.pc = "packaging"
    /\ orchestrator' =
          [Yield(PackagingStatus(fault)) EXCEPT
              !.pc = "done",
              !.archive = fault # "archive",
              !.artifact = fault = "none"]
    /\ UNCHANGED <<qaVars, storeVars, tasks, inspec, env>>

\* The orchestrator and the Repair Controller of qa.py as agents of one
\* session, each run once, in any order and interleaving.
InitPipeline ==
    /\ InitQARun
    /\ variant = "qa"
    /\ StoreIdle
    /\ tasks = NoTasks
    /\ inspec = NoInspec
    /\ env = NoEnv
    /\ \E product \in BOOLEAN : orchestrator = OrchestratorStart(product)

NextPipeline ==
    \/ RunStart
    \/ QaTestBaseline
    \/ QaRemediateFailures
    \/ QaLlmReturn
    \/ QaLlmRaise
    \/ OrchestratorEnter
    \/ OrchestratorSimulate
    \/ \E fault \in BOOLEAN : OrchestratorStructure(fault)
    \/ \E fault \in {"none", "archive", "artifact"} : OrchestratorPackage(fault)

SpecPipeline == InitPipeline /\ [][NextPipeline]_vars

-----------------------------------------------------------------------------
(* run_inspec_tests of services/inspect_runner/tool.py *)

MaxLines == 2               \* lines the command writes to stdout: 0..MaxLines

\* The exit of inspec exec: zero when every control passed, and non-zero
\* either because a control failed or because the profile could not be run
\* (bad profile path, target unreachable).
ExitCodes == {"zero", "control_failed", "could_not_run"}

\* A line of stdout: a JSON document (the report v), other text, or white
\* space only.
JsonLine(v) == [k |-> "json", v |-> v]
TextLine == [k |-> "text", v |-> 0]
BlankLine == [k |-> "blank", v |-> 0]

\* The reports: 1 with every control passed, 2 with failed controls.
Reports == {1, 2}
StdoutLines == {JsonLine(v) : v \in Reports} \cup {TextLine, BlankLine}

\* What subprocess.run(command, capture_output=True, text=True) does,
\* before check and timeout are applied: it cannot start the executable, it
\* runs over the timeout, or the command exits.
Procs ==
    {[NoProc EXCEPT !.raises = e] : e \in {"FileNotFoundError", "TimeoutExpired"}}
    \cup {[raises |-> "none", returncode |-> c, stdout |-> out, stderr |-> err] :
            c \in ExitCodes, out \in SeqsUpTo(StdoutLines, MaxLines),
            err \in {0, 1}}

\* stdout.strip().splitlines(): the lines without the blank ones at either
\* end.
RECURSIVE LStrip(_)
LStrip(lines) ==
    IF lines # <<>> /\ Head(lines) = BlankLine THEN LStrip(Tail(lines)) ELSE lines
RECURSIVE RStrip(_)
RStrip(lines) ==
    IF lines # <<>> /\ lines[Len(lines)] = BlankLine
    THEN RStrip(SubSeq(lines, 1, Len(lines) - 1)) ELSE lines
StripSplitlines(lines) == RStrip(LStrip(lines))

\* The returned JSON values.
Success(data) ==
    [NoReturn EXCEPT !.status = "success", !.keys = {"status", "data"}, !.data = data]
Failure(message) ==
    [NoReturn EXCEPT !.status = "failure", !.keys = {"status", "message"},
                     !.message = message]
ExecutionFailed(stderr) ==
    [NoReturn EXCEPT !.status = "failure", !.keys = {"status", "message", "stderr"},
                     !.message = "execution_failed", !.stderr = stderr]

\* Variant of UnexpectedError without the except Exception clause.
UnexpectedError_mut == [NoReturn EXCEPT !.raised = TRUE]

\* except Exception: TimeoutExpired, IndexError of [-1] on no line, and
\* JSONDecodeError all end here.
UnexpectedError == Failure("unexpected")

\* The try block of run_inspec_tests and its except clauses; check=True
\* turns every non-zero exit into CalledProcessError.
run_inspec_tests(proc) ==
    IF proc.raises = "FileNotFoundError" THEN Failure("not_found")
    ELSE IF proc.raises = "TimeoutExpired" THEN UnexpectedError
    ELSE IF proc.returncode # "zero" THEN ExecutionFailed(proc.stderr)
    ELSE LET lines == StripSplitlines(proc.stdout) IN
           IF lines = <<>> THEN UnexpectedError
           ELSE IF lines[Len(lines)].k # "json" THEN UnexpectedError
           ELSE Success(lines[Len(lines)].v)

\* The tool is called and awaits ctx.info.
InspecCall ==
    /\ inspec.pc = "call"
    /\ inspec' = [inspec EXCEPT !.pc = "info"]
    /\ UNCHANGED <<qaVars, storeVars, tasks, orchestrator, env>>

\* The command is run and its outcome turned into the return value; the
\* tool then awaits ctx.info or ctx.error.
InspecRun ==
    /\ inspec.pc = "info"
    /\ inspec' = [inspec EXCEPT
                     !.returned = run_inspec_tests(inspec.proc),
                     !.pc = IF run_inspec_tests(inspec.proc).raised
                            THEN "returned" ELSE "logging"]
    /\ UNCHANGED <<qaVars, storeVars, tasks, orchestrator, env>>

\* The tool returns.
InspecReturn ==
    /\ inspec.pc = "logging"
    /\ inspec' = [inspec EXCEPT !.pc = "returned"]
    /\ UNCHANGED <<qaVars, storeVars, tasks, orchestrator, env>>

InitInspec ==
    /\ QaIdle
    /\ StoreIdle
    /\ tasks = NoTasks
    /\ orchestrator = NoOrchestrator
    /\ env = NoEnv
    /\ \E proc \in Procs : inspec = [pc |-> "call", proc |-> proc, returned |-> NoReturn]

NextInspec == InspecCall \/ InspecRun \/ InspecReturn

SpecInspec == InitInspec /\ [][NextInspec]_vars

-----------------------------------------------------------------------------
(* load_env and get_config_value of common/config.py *)

MaxCalls == 3               \* calls made to the module in one process

\* The module after import: python-dotenv is installed or not; the file
\* development.env is missing, present, or present and load_dotenv raises on
\* it; _ENV_LOADED = False and nothing has been loaded.
Imported(dotenv, file) ==
    [NoEnv EXCEPT !.pc = "imported", !.DOTENV_AVAILABLE = dotenv, !.file = file]

\* Whether this call of load_env gets as far as load_dotenv(env_file)
\* returning.
LoadsFile(e) == e.DOTENV_AVAILABLE /\ e.file = "present"

\* The value load_env(force_reload) returns in module state e.
load_env(e, force_reload) ==
    IF e.ENV_LOADED /\ ~force_reload THEN TRUE ELSE LoadsFile(e)

\* The module state load_env(force_reload) leaves: every branch past the
\* first return sets _ENV_LOADED = True.
AfterLoadEnv(e, force_reload) ==
    IF e.ENV_LOADED /\ ~force_reload THEN e
    ELSE [e EXCEPT !.ENV_LOADED = TRUE, !.loaded = e.loaded \/ LoadsFile(e)]

\* A call as the caller saw it: the value returned and whether variables
\* of the file were in the environment when it returned.
CallRec(op, force_reload, value, loaded) ==
    [op |-> op, force_reload |-> force_reload, value |-> value, loaded |-> loaded]

LoadEnv(force_reload) ==
    /\ env.pc = "imported"
    /\ Len(env.calls) < MaxCalls
    /\ env' = [AfterLoadEnv(env, force_reload) EXCEPT
                  !.calls = Append(env.calls,
                                   CallRec("load_env", force_reload,
                                           load_env(env, force_reload),
                                           AfterLoadEnv(env, force_reload).loaded))]
    /\ UNCHANGED <<qaVars, storeVars, tasks, orchestrator, inspec>>

\* get_config_value(key, default) for a key set in the file only: load_env()
\* and then os.getenv(key, default).
GetConfigValue ==
    /\ env.pc = "imported"
    /\ Len(env.calls) < MaxCalls
    /\ env' = [AfterLoadEnv(env, FALSE) EXCEPT
                  !.calls = Append(env.calls,
                                   CallRec("get_config_value", FALSE,
                                           AfterLoadEnv(env, FALSE).loaded,
                                           AfterLoadEnv(env, FALSE).loaded))]
    /\ UNCHANGED <<qaVars, storeVars, tasks, orchestrator, inspec>>

InitEnv ==
    /\ QaIdle
    /\ StoreIdle
    /\ tasks = NoTasks
    /\ orchestrator = NoOrchestrator
    /\ inspec = NoInspec
    /\ \E dotenv \in BOOLEAN, file \in {"missing", "present", "unreadable"} :
          env = Imported(dotenv, file)

NextEnv ==
    \/ \E force_reload \in BOOLEAN : LoadEnv(force_reload)
    \/ GetConfigValue

SpecEnv == InitEnv /\ [][NextEnv]_vars

-----------------------------------------------------------------------------
(* Trace predicates used by the properties *)

TestIdx == {i \in 1..Len(calls) : calls[i].op = "test"}
LastCall == calls[Len(calls)]
GeneratorFailed == CountOp(calls, "raised") > 0
SomeTestPassed == \E i \in TestIdx : calls[i].result.all_passed
Terminal == pc = "done"

\* The result of the k-th test invocation.
RECURSIVE NthTest(_, _)
NthTest(s, k) ==
    IF s[1].op = "test"
    THEN (IF k = 1 THEN s[1].result ELSE NthTest(Tail(s), k - 1))
    ELSE NthTest(Tail(s), k)

-----------------------------------------------------------------------------
(* C1 *)

-----------------------------------------------------------------------------
(* C2 *)

AllThreeFailed ==
    /\ Tests = max_iterations
    /\ \A i \in TestIdx : ~calls[i].result.all_passed

-----------------------------------------------------------------------------
(* C3 *)

\* C3: the run reports success exactly when the most recent test invocation
\* passed; a passing test is the last call of the run.
C3_SuccessIffLastTestPassed ==
    /\ (outcome = "success") <=>
          (Tests > 0 /\ NthTest(calls, Tests).all_passed)
    /\ (outcome = "success") <=>
          (Len(events) = 1 /\ events[1].status = "success")
    /\ \A i \in TestIdx : calls[i].result.all_passed => (i = Len(calls) /\ Terminal)

C3_Witness ==
    outcome = "success" /\ Tests = 2 /\ Remediations = 1

-----------------------------------------------------------------------------
(* C4 *)

\* C4: the code a generator call returns is the code the next test
\* invocation runs against.
C4_RegeneratedCodeIsTested ==
    \A i \in 1..(Len(calls) - 1) :
        (calls[i].op = "generated" /\ calls[i + 1].op = "test")
            => calls[i + 1].code = calls[i].out

-----------------------------------------------------------------------------
(* C5 *)

\* C5 as stated: the history is as long as the number of test invocations
\* made so far, and as long as the iteration counter when the run is over.
C5_HistoryCountsTests ==
    /\ Len(history) = Tests
    /\ (Terminal /\ baseline_path) => Len(history) = iteration

\* C5 amended: no history list is kept (at most the latest result); the
\* number of test invocations made so far is iteration + 1 in qa.py and
\* iteration in qa_old.py, at loop exit too.
C5_TestsMatchIteration ==
    /\ Len(history) <= 1
    /\ variant = "qa" => Tests = iteration + 1
    /\ (variant = "qa_old" /\ iteration # NoIteration) => Tests = iteration

C5_Witness ==
    Terminal /\ variant = "qa" /\ Tests = max_iterations /\ iteration = 2

-----------------------------------------------------------------------------
(* C6 *)

ScenarioA ==
    /\ Tests = 3
    /\ NthTest(calls, 1).status = "failed"
    /\ NthTest(calls, 2).status = "failed"
    /\ NthTest(calls, 3).status = "passed"

-----------------------------------------------------------------------------
(* C7 *)

ConsecutiveTests(i, j) ==
    /\ i \in TestIdx
    /\ j \in TestIdx
    /\ i < j
    /\ \A k \in TestIdx : ~(i < k /\ k < j)

Between(i, j, op) == Cardinality({k \in (i + 1)..(j - 1) : calls[k].op = op})

-----------------------------------------------------------------------------
(* C8 *)

TestsUpTo(i) == Cardinality({k \in TestIdx : k <= i})

-----------------------------------------------------------------------------
(* C9 *)

\* C9 as stated: after a failed generator call the run goes on (it is
\* neither over nor ended by the error) while budget remains.
C9_GeneratorFailureContinues ==
    (GeneratorFailed /\ Tests < max_iterations) => (~Terminal /\ outcome = "running")

\* C9 amended: a failed generator call ends the run at once, with no further
\* test or generator call: qa_old.py returns status failure with the last
\* test results, qa.py lets the error propagate and emits no event.
C9_GeneratorFailureEndsRun ==
    GeneratorFailed =>
        /\ Terminal
        /\ LastCall.op = "raised"
        /\ CountOp(calls, "raised") = 1
        /\ Tests < max_iterations
        /\ variant = "qa_old" =>
              (outcome = "failed"
               /\ events = <<Event("failure", -1, iteration, NthTest(calls, Tests))>>)
        /\ variant = "qa" => (outcome = "raised" /\ events = <<>>)

C9_Witness ==
    GeneratorFailed /\ variant = "qa_old" /\ Tests = 2 /\ outcome = "failed"

-----------------------------------------------------------------------------
(* C10 *)

-----------------------------------------------------------------------------
(* C11 *)

\* C11 as stated: every terminal outcome (PASSED, FAILED, cancelled) is
\* reported to the caller together with the number of iterations consumed
\* and the final code.
C11_OutcomeCarriesCountAndCode ==
    (Terminal /\ outcome \in {"success", "failed", "cancelled"}) =>
        /\ Len(events) = 1
        /\ events[1].iterations = Tests
        /\ events[1].code \in Codes

\* C11 amended: PASSED and FAILED are reported as one status event that
\* never carries the code; qa.py reports no iteration count at all, qa_old.py
\* reports the number of passes under "iterations" on success and only
\* inside the message text on failure; a cancelled run or one ended by a
\* raising generator in qa.py reports nothing.
C11_OutcomeReportedWithoutCode ==
    Terminal =>
        /\ outcome \in {"cancelled", "raised"} => events = <<>>
        /\ outcome \in {"success", "failed", "error"} =>
              /\ Len(events) = 1
              /\ events[1].code = NoCode
              /\ events[1].status =
                    (IF outcome = "failed" /\ variant = "qa_old" THEN "failure"
                     ELSE outcome)
              /\ variant = "qa" =>
                    (events[1].iterations = -1 /\ events[1].message = -1)
              /\ (variant = "qa_old" /\ outcome = "success") =>
                    (events[1].iterations = Tests /\ events[1].message = -1)
              /\ (variant = "qa_old" /\ outcome = "failed") =>
                    (events[1].iterations = -1 /\ events[1].message = Tests)

C11_Witness ==
    /\ Terminal /\ variant = "qa_old" /\ outcome = "failed"
    /\ Tests = max_iterations
    /\ events[1].message = max_iterations

-----------------------------------------------------------------------------
(* C12 *)

\* The failures handed to the generator by the generator calls strictly
\* between positions i and j of the trace, in call order.
RECURSIVE HandedBetween(_, _)
HandedBetween(i, j) ==
    IF i + 1 >= j THEN <<>>
    ELSE (IF calls[i + 1].op = "generate" THEN calls[i + 1].result.failures
          ELSE <<>>) \o HandedBetween(i + 1, j)

-----------------------------------------------------------------------------
(* The control blocks of a file read by nesting, for the properties *)

\* The line closing the block whose body starts at line j, counting the
\* do/end pairs nested in it (0: the block is not closed).
RECURSIVE OwnEnd(_, _, _)
OwnEnd(lines, j, depth) ==
    IF j > Len(lines) THEN 0
    ELSE IF lines[j].k = "end"
         THEN (IF depth = 1 THEN j ELSE OwnEnd(lines, j + 1, depth - 1))
         ELSE IF lines[j].k \in {"describe", "control"}
              THEN OwnEnd(lines, j + 1, depth + 1)
              ELSE OwnEnd(lines, j + 1, depth)

\* The well-formed control blocks of a file in document order, each from
\* its control line to its own closing end, with its id and declared title.
RECURSIVE DeclaredControls(_, _)
DeclaredControls(lines, from) ==
    LET i == FirstLine(lines, from, "control") IN
      IF i = 0 \/ OwnEnd(lines, i + 1, 1) = 0 THEN <<>>
      ELSE LET block == SubSeq(lines, i, OwnEnd(lines, i + 1, 1)) IN
             (IF lines[i].v # 0 /\ TitleSearch(block) # NoTitle
              THEN <<[id |-> lines[i].v, description |-> TitleSearch(block),
                      code |-> block]>>
              ELSE <<>>) \o DeclaredControls(lines, OwnEnd(lines, i + 1, 1) + 1)

-----------------------------------------------------------------------------
(* State predicates on the last Example Store operation *)

IngestOps == {"add_to_memory", "manage_add"}
StoreOps == IngestOps \cup {"query_memory", "manage_query"}

\* The collection the last operation works on, and whether it is there.
OpCollection ==
    IF result.op \in {"add_to_memory", "query_memory"} THEN target_collection
    ELSE examples_collection
OpAvailable == OpCollection.available
OpEntries == OpCollection.entries

\* The files the last ingest read and the entries it passed to add.
OpFiles == Checkout(result.source)
OpBatch ==
    IF result.op = "add_to_memory" THEN LegacyBatch(AllControls(OpFiles))
    ELSE ExamplesBatch(result.source, OpFiles)

\* An ingest that returned success and reported controls.
Ingested ==
    result.op \in IngestOps /\ result.status = "success" /\ result.count > 0

-----------------------------------------------------------------------------
(* C13 *)

\* C13: ingesting the same baseline location again, its files unchanged,
\* through the same operation as the successful ingest before it, succeeds
\* and leaves every collection with exactly the entries it had: no entry is
\* added, none duplicated.
C13_ReingestIsIdempotent ==
    [][\A s \in Sources :
          /\ (/\ result.op = "add_to_memory" /\ result.source = s
              /\ result.status = "success"
              /\ AddToMemory(s, FALSE))
                 => (/\ result'.status = "success"
                     /\ UNCHANGED <<examples_collection, legacy_collection>>)
          /\ (/\ result.op = "manage_add" /\ result.source = s
              /\ result.status = "success"
              /\ ManageAdd(s, FALSE))
                 => (/\ result'.status = "success"
                     /\ UNCHANGED <<examples_collection, legacy_collection>>)]_vars

\* A second manage_baseline_memory add of two unchanged control files.
C13_Witness ==
    /\ result.op = "manage_add" /\ result.status = "success"
    /\ result.count = 2 /\ result.skipped = 2
    /\ \A i \in 1..Len(OpBatch) : OpBatch[i] \in examples_collection.entries
    /\ Cardinality(examples_collection.entries) = 2

-----------------------------------------------------------------------------
(* C14 *)

\* C14: examples are keyed by (source, control_id): after a successful
\* ingest of a location, every control it reported is stored under a key
\* naming that location, whatever other location holds the same control id.
C14_KeyedBySourceAndControlId ==
    Ingested =>
        \A i \in 1..Len(OpBatch) :
            \E e \in OpEntries :
                /\ e.id.source = result.source
                /\ e.id.control_id = OpBatch[i].id.control_id

-----------------------------------------------------------------------------
(* C15 *)

\* C15: re-ingest is last-write-wins: after a successful ingest, the entry
\* of every control it reported holds the description and code just read.
C15_LastWriteWins ==
    Ingested =>
        \A i \in 1..Len(OpBatch) :
            \E e \in OpEntries :
                /\ e.id = OpBatch[i].id
                /\ e.document = OpBatch[i].document
                /\ e.metadata = OpBatch[i].metadata

-----------------------------------------------------------------------------
(* C16 *)

\* The well-formed control blocks of the files of a directory, in order.
DeclaredAll(files) ==
    Concat([f \in 1..Len(files) |-> DeclaredControls(files[f], 1)])

\* The files of a directory that quote a control id somewhere.
FilesWithId(files) == {f \in 1..Len(files) : IdSearch(files[f]) # 0}

\* An ingest into an available collection of a directory with no
\* well-formed control block (possibly with no .rb file at all).
EmptyIngest ==
    /\ result.op \in IngestOps
    /\ OpAvailable
    /\ DeclaredAll(OpFiles) = <<>>

\* C16 as stated: an ingest that finds no parsable control reports success
\* with an added count of zero and leaves the store unchanged.
C16_EmptyIngestSucceedsWithZero ==
    EmptyIngest =>
        /\ result.status = "success"
        /\ result.count = 0
        /\ OpEntries = {}

\* C16 amended: such an ingest never reports a count.  add_to_memory
\* leaves the store unchanged and returns failure when there is no .rb
\* file, success ("No controls found to add.") when there are files;
\* manage_baseline_memory returns a warning and leaves the store unchanged
\* unless some file quotes a control id, in which case it stores one
\* example per such file (a control without a title) and returns success.
C16_EmptyIngestStatus ==
    EmptyIngest =>
        /\ result.op = "add_to_memory" =>
              /\ OpEntries = {}
              /\ result.count = -1
              /\ result.status = (IF OpFiles = <<>> THEN "failure" ELSE "success")
        /\ (result.op = "manage_add" /\ FilesWithId(OpFiles) = {}) =>
              /\ OpEntries = {}
              /\ result.count = -1
              /\ result.status = "warning"
        /\ (result.op = "manage_add" /\ FilesWithId(OpFiles) # {}) =>
              /\ result.status = "success"
              /\ result.count = Cardinality(FilesWithId(OpFiles))
              /\ Cardinality(OpEntries) = result.count

C16_Witness ==
    /\ EmptyIngest
    /\ result.op = "add_to_memory"
    /\ OpFiles # <<>>
    /\ result.status = "success" /\ result.message = "no_controls"

-----------------------------------------------------------------------------
(* C17 *)

\* An ingest into an available, empty collection of a directory with at
\* least one well-formed control block.
MixedIngest ==
    /\ result.op \in IngestOps
    /\ OpAvailable
    /\ DeclaredAll(OpFiles) # <<>>

DistinctIds(controls) ==
    \A i, j \in 1..Len(controls) : i # j => controls[i].id # controls[j].id

-----------------------------------------------------------------------------
(* C18 *)

\* C18: parse_inspec_controls_from_file returns, in document order, one
\* {id, description, code} for every well-formed control block, code being
\* the complete block up to its own closing end (nested do/end included)
\* and description the block's declared title.
C18_CompleteVerbatimBlocks ==
    found_controls.done =>
        found_controls.controls = DeclaredControls(file_content, 1)

-----------------------------------------------------------------------------
(* C19 *)

\* C19: no Example Store operation raises, and one that finds its
\* collection unavailable returns a failure or error status.
C19_FailureStatusInsteadOfRaise ==
    result.op \in StoreOps =>
        /\ ~result.raised
        /\ ~OpAvailable =>
              (result.status \in {"failure", "error"} /\ OpEntries = {})

-----------------------------------------------------------------------------
(* C20 *)

\* C20: a memory query that fails, the collection being unavailable or its
\* query raising, leaves the prompt without examples and the generator is
\* still invoked; coding.py never queries the store and always goes on to
\* the generator for a valid control stub.
C20_StoreFailureDoesNotAbort ==
    /\ (result.op = "on_event" /\ result.query \in {"failure", "raised"}) =>
          (result.generated /\ result.count = 0)
    /\ (result.op = "run_async_impl" /\ result.status # "error") =>
          (result.generated /\ result.count = 0 /\ result.query = "none")

\* The query raises although the collection holds examples.
C20_Witness ==
    /\ result.op = "on_event"
    /\ result.query = "failure"
    /\ result.generated
    /\ result.status = "success"
    /\ target_collection.available
    /\ target_collection.entries # {}

-----------------------------------------------------------------------------
(* C21 *)

\* The distance between a stored document and a query text.
Distance(document, q) ==
    IF TitleSearch(document) > q THEN TitleSearch(document) - q
    ELSE q - TitleSearch(document)

\* found lists, nearest first, the k entries nearest to q (all the entries
\* when there are fewer than k).
NearestFirst(found, entries, q, k) ==
    /\ Len(found) = (IF Cardinality(entries) < k THEN Cardinality(entries) ELSE k)
    /\ \A i \in 1..Len(found) : found[i] \in entries
    /\ \A i, j \in 1..Len(found) :
          i < j => /\ found[i] # found[j]
                   /\ Distance(found[i].document, q) <= Distance(found[j].document, q)
    /\ \A e \in entries :
          (\A i \in 1..Len(found) : found[i] # e) =>
              \A i \in 1..Len(found) :
                  Distance(found[i].document, q) <= Distance(e.document, q)

-----------------------------------------------------------------------------
(* C22 *)

\* The last operation queried an available collection holding no entry, the
\* collection's query call itself returning.
EmptyQuery ==
    /\ result.op \in {"query_memory", "manage_query"}
    /\ OpAvailable /\ OpEntries = {}
    /\ result.message \notin {"exception", "no_query_text"}

\* C22: a query of an empty, available collection returns success with an
\* empty result sequence through either entry point, and the Coding Agent
\* whose query found the collection empty still invokes the generator, with
\* no examples.
C22_EmptyStoreQuerySucceeds ==
    /\ EmptyQuery =>
          /\ result.status = "success"
          /\ result.results = <<>>
          /\ ~result.raised
    /\ (/\ result.op = "on_event" /\ result.query = "success"
        /\ target_collection.entries = {}) =>
          (result.generated /\ result.count = 0)

\* The Coding Agent generating after its query of an empty collection.
C22_Witness ==
    /\ result.op = "on_event" /\ result.query = "success"
    /\ target_collection.available /\ target_collection.entries = {}
    /\ result.generated /\ result.status = "success"

-----------------------------------------------------------------------------
(* C23 *)

IngestTasks == {1, 2}
QueryTasks == {3}

\* The collection the call of task t works on, the files it reads and the
\* entries it passes to add.
TaskOnLegacy(t) == tasks[t].op \in {"add_to_memory", "query_memory"} /\ TargetIsLegacy
TaskCollection(t) == IF TaskOnLegacy(t) THEN legacy_collection ELSE examples_collection
TaskBatch(t) ==
    IF tasks[t].op = "add_to_memory"
    THEN LegacyBatch(AllControls(Checkout(tasks[t].source)))
    ELSE ExamplesBatch(tasks[t].source, Checkout(tasks[t].source))

\* The number of controls the ingests that went into a collection reported.
Committed(t, legacy) ==
    IF TaskOnLegacy(t) = legacy /\ tasks[t].result.status = "success"
       /\ tasks[t].result.count > 0
    THEN tasks[t].result.count ELSE 0

\* C23: when two ingests of different locations and a query have run
\* concurrently, each ingest has committed every control it parsed, neither
\* having failed or lost an entry to the other, each collection holds the
\* examples of both, and the query has seen no error.
C23_ConcurrentIngestsCommitAll ==
    (\A t \in TaskIds : tasks # NoTasks /\ tasks[t].pc = "done") =>
        /\ \A t \in IngestTasks :
              /\ ~tasks[t].result.raised
              /\ tasks[t].result.status \in {"failure", "error"} =>
                    \/ ~TaskCollection(t).available
                    \/ Checkout(tasks[t].source) = <<>>
                    \/ HasDuplicateIds(TaskBatch(t))
              /\ tasks[t].result.status = "success" =>
                    /\ tasks[t].result.skipped = 0
                    /\ \A i \in 1..Len(TaskBatch(t)) :
                          TaskBatch(t)[i] \in TaskCollection(t).entries
        /\ Cardinality(legacy_collection.entries) = Committed(1, TRUE) + Committed(2, TRUE)
        /\ Cardinality(examples_collection.entries) =
              Committed(1, FALSE) + Committed(2, FALSE)
        /\ \A t \in QueryTasks :
              /\ ~tasks[t].result.raised
              /\ TaskCollection(t).available => tasks[t].result.status = "success"

-----------------------------------------------------------------------------
(* C24 *)

\* The orchestrator has registered the artifact and announced it.
ArtifactEmitted ==
    /\ orchestrator.artifact
    /\ orchestrator.events # <<>>
    /\ orchestrator.events[Len(orchestrator.events)] = "success"

\* The Repair Controller's run has ended with its success event.
RepairPassed ==
    /\ outcome = "success"
    /\ events # <<>> /\ events[Len(events)].status = "success"

\* C24 as stated: an artifact is emitted only after a Repair Controller run
\* that reached PASSED.
C24_ArtifactOnlyOnPassed == ArtifactEmitted => RepairPassed

\* C24 amended: the orchestrator simulates the workflow and never reads the
\* Repair Controller's outcome: with a product in the session state it
\* yields started, progress, progress and then, when writing and packaging
\* raised nothing, registers the artifact and yields success, whatever the
\* Repair Controller has or has not done; when packaging raises it yields
\* an error event and no artifact is announced; without a product it
\* yields one error event and packages nothing.
C24_ArtifactWhateverTheRepairOutcome ==
    orchestrator.pc = "done" =>
        /\ ~orchestrator.product =>
              /\ orchestrator.events = <<"no_product">>
              /\ ~orchestrator.structure /\ ~orchestrator.artifact
        /\ (orchestrator.product /\ ~orchestrator.raised) =>
              /\ SubSeq(orchestrator.events, 1, 3) = <<"started", "progress", "progress">>
              /\ Len(orchestrator.events) = 4
              /\ orchestrator.events[4] \in {"success", "error"}
              /\ orchestrator.events[4] = "success" <=> orchestrator.artifact
              /\ orchestrator.structure
        /\ orchestrator.raised =>
              /\ orchestrator.events = <<"started", "progress">>
              /\ ~orchestrator.artifact

\* The artifact is emitted while the Repair Controller's run has failed.
C24_Witness ==
    /\ ArtifactEmitted
    /\ orchestrator.pc = "done"
    /\ outcome = "failed"

-----------------------------------------------------------------------------
(* C25 *)

\* The last non-blank line the command wrote.
LastOutput(proc) ==
    LET out == SelectSeq(proc.stdout, LAMBDA l : l # BlankLine) IN
      IF out = <<>> THEN BlankLine ELSE out[Len(out)]

\* The profile ran and some control failed: inspec exits non-zero after
\* writing the report of the failures.
OrdinaryTestFailure(proc) ==
    /\ proc.raises = "none"
    /\ proc.returncode = "control_failed"
    /\ LastOutput(proc) = JsonLine(2)

\* The command could not run the profile: not started, timed out, or exited
\* for an error of its own.
EnvironmentFault(proc) ==
    \/ proc.raises # "none"
    \/ proc.returncode = "could_not_run"

\* C25: an ordinary test failure is returned as a completed result carrying
\* the failures, and it differs from what an environment fault returns.
C25_TestFailureIsNotAFault ==
    (inspec.pc = "returned" /\ OrdinaryTestFailure(inspec.proc)) =>
        /\ "data" \in inspec.returned.keys
        /\ inspec.returned.data = 2
        /\ \A proc \in Procs :
              EnvironmentFault(proc) =>
                  run_inspec_tests(proc).status # inspec.returned.status

-----------------------------------------------------------------------------
(* C26 *)

\* C26: run_inspec_tests never raises; when the command is not found, exits
\* non-zero, times out, or ends with no output or output that is not JSON,
\* it returns status failure with a message; it returns success exactly
\* when the command exited zero and its last line of output parsed as JSON.
C26_NeverRaises ==
    inspec.pc = "returned" =>
        /\ ~inspec.returned.raised
        /\ inspec.returned.status \in {"success", "failure"}
        /\ inspec.returned.status = "failure" =>
              ("message" \in inspec.returned.keys /\ inspec.returned.message # "none")
        /\ inspec.returned.status = "success" <=>
              /\ inspec.proc.raises = "none"
              /\ inspec.proc.returncode = "zero"
              /\ LastOutput(inspec.proc).k = "json"
        /\ inspec.returned.status = "success" =>
              inspec.returned.data = LastOutput(inspec.proc).v

\* The command timed out and the tool returned a failure.
C26_Witness ==
    /\ inspec.pc = "returned"
    /\ inspec.proc.raises = "TimeoutExpired"
    /\ inspec.returned.status = "failure"
    /\ inspec.returned.message = "unexpected"

-----------------------------------------------------------------------------
(* C27 *)

TerminalStatuses == {"success", "failed", "error"}

-----------------------------------------------------------------------------
(* C28 *)

\* Some ingest has committed an example to one of the collections.
SomethingCommitted ==
    examples_collection.entries # {} \/ legacy_collection.entries # {}

\* C28: what an ingest entry point committed is found by every query entry
\* point: a successful query made while examples are stored searches the
\* collection holding them, so it returns at least one, and every result
\* of query_memory carries the example's code.
C28_IngestedIsRetrievable ==
    /\ (result.op \in {"query_memory", "manage_query"} /\ result.status = "success") =>
          (SomethingCommitted => result.results # <<>>)
    /\ (result.op = "query_memory" /\ result.status = "success") =>
          \A i \in 1..Len(result.results) : "code" \in result.results[i].keys

-----------------------------------------------------------------------------
(* C29 *)

-----------------------------------------------------------------------------
(* C30 *)

\* C30: load_env returns True only when variables were loaded from a
\* configuration file: on the first call and on every later one, so a call
\* without force_reload that follows a call that returned False returns
\* False too.
C30_TrueOnlyWhenLoaded ==
    \A i \in 1..Len(env.calls) :
        env.calls[i].op = "load_env" =>
            /\ env.calls[i].value => env.calls[i].loaded
            /\ (/\ i > 1 /\ ~env.calls[i].force_reload
                /\ env.calls[i - 1].op = "load_env" /\ ~env.calls[i - 1].value)
                  => ~env.calls[i].value

====
